---- MODULE Spec2Model ----
(***************************************************************************)
(* slotmachine: a conference scheduler.  prep_schedule turns a descriptor  *)
(* (talks, people, venues with wall-clock time ranges) into Talk / Person  *)
(* / Venue records over integer 5-minute slots; get_problem states a 0/1   *)
(* linear program over START / ACTIVE / ATTEND / ATTEND_AT variables;      *)
(* schedule_talks has the solver pick a valuation and projects it.         *)
(*                                                                         *)
(* The solver is an oracle: it returns any valuation that satisfies every  *)
(* constraint of the problem (status Optimal), or a non-Optimal status.    *)
(* The model keeps every feasible valuation, not only the best ones.       *)
(*                                                                         *)
(* Times are minutes.  A 0/1 variable is modelled by the set of index      *)
(* tuples at which it is 1.  ACTIVE is fixed by its CONTIGUITY equality,   *)
(* so its value is computed from START and checked against its bounds.     *)
(***************************************************************************)
EXTENDS Integers, Sequences, FiniteSets, TLC

VARIABLES
    schedule,            \* the descriptor handed to schedule()
    spacing_arg,         \* schedule()'s spacing_slots argument
    binary_keeps_bounds, \* does LpVariable(cat="Binary") keep upBound=0 ?
    pc,                  \* "start", "prepped", "solved", "unsatisfiable", "done"
    status,              \* pulp.LpStatus[self.problem.status] after solve
    talks,               \* prep["talks"]: sequence of Talk records
    people,              \* prep["people"]: sequence of Person records
    venues,              \* prep["venues"]: sequence of Venue records
    slots_available,     \* self.slots_available
    talks_by_speaker,    \* self.talks_by_speaker: person id -> sequence of talk ids
    START,               \* {<<s,t,v>>} with START_s_t_v = 1
    ATTEND_AT,           \* {<<s,t,p>>} with ATTEND_AT_s_t_p = 1
    ATTEND,              \* {<<t,p>>} with ATTEND_t_p = 1
    solved,              \* what schedule_talks returns
    talk_data,           \* prep["talk_data"]: talk id -> fields added by schedule()
    suspected_constr,    \* names violated_constr returns, by constraint family
    suspected_var,       \* names violating_var returns, as <<kind, s, t, v>>
    outfile,             \* <<>> until schedule_from_file writes it, then <<result>>
    slots_table,         \* the cells of the set object self.slots_available
    created_runs         \* per get_problem call, the order it took venue_ids and
                         \* self.slots_available in: what it created follows

vars == <<schedule, spacing_arg, binary_keeps_bounds, pc, status, talks, people, venues,
          slots_available, talks_by_speaker, START, ATTEND_AT, ATTEND, solved,
          talk_data, suspected_constr, suspected_var, outfile, slots_table,
          created_runs>>

(***************************************************************************)
(* Bounds of the model                                                     *)
(***************************************************************************)
\* most START variables of one talk the solver sets to 1 in a candidate
MaxOnes == 2
\* largest spacing_slots argument / key tried
MaxSpacing == 1
\* most calls of prep_schedule and get_problem on one SlotMachine
MaxRuns == 2

(***************************************************************************)
(* Program constants                                                       *)
(***************************************************************************)
SLOT_INCREMENT == 5
\* the 60 and 120 minutes of REST_MIN_SPACING / REST_MAX_SPACING
RestMinMinutes == 60
RestMaxMinutes == 120

\* event.get("spacing_slots", ...) on a record without the key
NoKey == -1

(***************************************************************************)
(* Helpers                                                                 *)
(***************************************************************************)
Range(seq) == {seq[i] : i \in DOMAIN seq}

\* how many times x occurs in a Python list
Mult(seq, x) == Cardinality({i \in DOMAIN seq : seq[i] = x})

Max(a, b) == IF a >= b THEN a ELSE b

\* math.ceil(a / b) for b > 0
CeilDiv(a, b) == -((-a) \div b)

\* the sum of the values of a function with a finite domain
RECURSIVE SumFn(_)
SumFn(f) ==
    IF DOMAIN f = {} THEN 0
    ELSE LET x == CHOOSE y \in DOMAIN f : TRUE
         IN  f[x] + SumFn([y \in DOMAIN f \ {x} |-> f[y]])

\* the subsets of D with at most k elements
RECURSIVE KSubsets(_, _)
KSubsets(D, k) ==
    IF k = 0 THEN {{}}
    ELSE LET P == KSubsets(D, k - 1) IN P \cup {p \cup {x} : p \in P, x \in D}

(***************************************************************************)
(* Time grid                                                               *)
(***************************************************************************)
num_slots(start_time, end_time) == CeilDiv(end_time - start_time, SLOT_INCREMENT)

\* range(slot_start, slot_start + num_slots + spacing_slots), as a list
calculate_slots(event_start, range_start, range_end, spacing_slots) ==
    LET slot_start == CeilDiv(range_start - event_start, SLOT_INCREMENT)
        n == num_slots(range_start, range_end) + spacing_slots
    IN  [i \in 1..n |-> slot_start + i - 1]

\* slots.extend(calculate_slots(...)) for every range of a list of ranges
RECURSIVE RangesToSlots(_, _, _)
RangesToSlots(event_start, ranges, spacing_slots) ==
    IF ranges = <<>> THEN <<>>
    ELSE calculate_slots(event_start, Head(ranges)[1], Head(ranges)[2], spacing_slots)
         \o RangesToSlots(event_start, Tail(ranges), spacing_slots)

(***************************************************************************)
(* prep_schedule                                                           *)
(***************************************************************************)
\* min(start of every time range of every talk)
event_start(sch) ==
    LET starts == UNION {{sch.talks[i].time_ranges[j][1] :
                            j \in DOMAIN sch.talks[i].time_ranges} :
                         i \in DOMAIN sch.talks}
    IN  CHOOSE m \in starts : \A x \in starts : m <= x

PrepPerson(sch, spacing_slots, person) ==
    [id |-> person.id,
     name |-> person.name,
     slots |-> RangesToSlots(event_start(sch), person.time_ranges, spacing_slots),
     preferred_slots |->
         RangesToSlots(event_start(sch), person.preferred_time_ranges, spacing_slots),
     preferences |-> person.preferences,
     attending |-> person.attending]

PrepVenue(sch, venue) ==
    [id |-> venue.id,
     slots |-> RangesToSlots(event_start(sch), venue.time_ranges, 0)]

TalkSpacing_none(sch, spacing_slots, i) ==
    0

\* spacing_slots = event.get("spacing_slots", spacing_slots): the local variable
\* is rebound by every talk that has the key, and read by the talks after it
RECURSIVE TalkSpacing(_, _, _)
TalkSpacing(sch, spacing_slots, i) ==
    IF sch.talks[i].spacing_slots /= NoKey THEN sch.talks[i].spacing_slots
    ELSE IF i = 1 THEN spacing_slots
    ELSE TalkSpacing(sch, spacing_slots, i - 1)

\* self.people_by_name[speaker].id
PersonIdByName(sch, name) ==
    LET i == CHOOSE k \in DOMAIN sch.people :
                /\ sch.people[k].name = name
                /\ \A j \in DOMAIN sch.people : sch.people[j].name = name => j <= k
    IN  sch.people[i].id

PrepTalk(sch, spacing_slots, i) ==
    LET event == sch.talks[i]
        sp == TalkSpacing(sch, spacing_slots, i)
    IN  [id |-> event.id,
         venues |-> event.valid_venues,
         slots |-> RangesToSlots(event_start(sch), event.time_ranges, sp),
         speakers |-> [k \in DOMAIN event.speakers |->
                          PersonIdByName(sch, event.speakers[k])],
         duration |-> CeilDiv(event.duration, SLOT_INCREMENT) + sp,
         preferred_venues |-> event.preferred_venues,
         preferred_slots |->
             RangesToSlots(event_start(sch), event.preferred_time_ranges, sp),
         plenary |-> event.plenary,
         irl_only |-> event.irl_only,
         prereqs |-> event.prereqs,
         rest |-> event.rest,
         before_rest |-> event.before_rest,
         after_rest |-> event.after_rest,
         meetup |-> event.meetup,
         invite_only |-> event.invite_only]

\* self.talks_by_speaker.setdefault(speaker, []).append(talk.id)
BySpeaker(tks) ==
    LET spk == UNION {Range(tks[i].speakers) : i \in DOMAIN tks}
    IN  [p \in spk |->
            LET RECURSIVE collect(_)
                collect(i) ==
                    IF i = 0 THEN <<>>
                    ELSE collect(i - 1) \o
                         [k \in 1..Mult(tks[i].speakers, p) |-> tks[i].id]
            IN  collect(Len(tks))]

(***************************************************************************)
(* get_problem: index sets                                                 *)
(***************************************************************************)
talk_ids == {talks[i].id : i \in DOMAIN talks}
venue_ids == {venues[i].id : i \in DOMAIN venues}
people_ids == {people[i].id : i \in DOMAIN people}
rest_talks == {talks[i].id : i \in {k \in DOMAIN talks : talks[k].rest = 1}}
nonrest_talks == {talks[i].id : i \in {k \in DOMAIN talks : talks[k].rest = 0}}

\* self.talks_by_id[tid], self.people_by_id[pid], the venue record of an id
talks_by_id(tid) == talks[CHOOSE i \in DOMAIN talks : talks[i].id = tid]
people_by_id(pid) == people[CHOOSE i \in DOMAIN people : people[i].id = pid]
venues_by_id(vid) == venues[CHOOSE i \in DOMAIN venues : venues[i].id = vid]

\* person.preferences.get(talk.id, 0)
PreferenceOf(pid, tid) ==
    IF tid \in DOMAIN people_by_id(pid).preferences
    THEN people_by_id(pid).preferences[tid] ELSE 0

(***************************************************************************)
(* Variable factory.  Every 0/1 variable is made with cat="Binary"; the    *)
(* ones the code prunes are made with lowBound=0, upBound=0 as well.       *)
(* PuLP's LpVariable constructor stores the bounds it is given and then,   *)
(* for cat="Binary", sets them to 0 and 1 (setup.py pins PuLP 3.0.2), so   *)
(* whether a pruned variable is really held at 0 is decided by the         *)
(* library: binary_keeps_bounds leaves both outcomes in the model.         *)
(***************************************************************************)
\* the upper bound of a Binary variable made with upBound=0 when pinned
UpBound(pinned) == IF pinned /\ binary_keeps_bounds THEN 0 ELSE 1

\* start_var: "contiguous" is false when some slot of the talk is unavailable
StartPinned(slot, tid) ==
    \E slot_offset \in 0..(talks_by_id(tid).duration - 1) :
        slot + slot_offset \notin slots_available

\* active: pinned unless slot and venue are in talk_permissions[tid]
ActivePinned(slot, tid, vid) ==
    ~(/\ slot \in Range(talks_by_id(tid).slots)
      /\ vid \in Range(talks_by_id(tid).venues))

\* attending_at: pinned unless slot is in the person's slots
AttendAtPinned(slot, pid) == slot \notin Range(people_by_id(pid).slots)

\* range(slot, max(-1, slot - duration), -1)
ActiveWindow(slot, tid) ==
    (Max(-1, slot - talks_by_id(tid).duration) + 1)..slot

\* the value CONTIGUITY_slot_tid_vid gives ACTIVE_slot_tid_vid
ActiveVal(st, slot, tid, vid) ==
    Cardinality({k \in ActiveWindow(slot, tid) : <<k, tid, vid>> \in st})

\* the slots at which get_problem asks for ACTIVE variables
ActiveSlots ==
    slots_available
    \cup (IF \E i \in DOMAIN talks : talks[i].before_rest = 1
          THEN {s + 1 : s \in slots_available} ELSE {})
    \cup (IF \E i \in DOMAIN talks : talks[i].after_rest = 1
          THEN {s - 1 : s \in slots_available} ELSE {})

\* the binding the loops "for talk in talks" leave behind: the last talk
LoopTalk == talks[Len(talks)]

\* the slots the preferred-slots term of the objective reads for a talk:
\* "for t in talks for s in talk.preferred_slots", with talk the binding left
\* by the loop of TALK_NOT_IN_INVALID_VENUE
RewardedSlots(tid) == LoopTalk.preferred_slots

\* the ACTIVE variables of a talk the objective asks for: the preferred slots
\* of its speakers and the slots of the preferred-slots term in every venue,
\* the available slots in its preferred venues
ObjectiveActiveVars(tid) ==
    ((UNION {Range(people_by_id(p).preferred_slots) :
                p \in Range(talks_by_id(tid).speakers)}
      \cup Range(RewardedSlots(tid))) \X venue_ids)
    \cup (slots_available \X Range(talks_by_id(tid).preferred_venues))

\* the ACTIVE variables of a talk in var_cache, as <<slot, venue>>: every
\* available slot (and the slots next to one, for BEFORE_REST / AFTER_REST) in
\* every venue, the talk's bad slots in the talk's own venues, and the
\* variables of the objective
ActiveVars(tid) ==
    (ActiveSlots \X venue_ids)
    \cup ((slots_available \ Range(talks_by_id(tid).slots))
          \X Range(talks_by_id(tid).venues))
    \cup ObjectiveActiveVars(tid)

\* the START variables of a talk in var_cache, as <<slot, tid, venue>>
StartVars(tid) ==
    {<<x[1], tid, x[2]>> :
        x \in (slots_available \X venue_ids)
              \cup (Range(talks_by_id(tid).slots) \X Range(talks_by_id(tid).venues))
              \cup UNION {ActiveWindow(a[1], tid) \X {a[2]} : a \in ActiveVars(tid)}}

\* every START variable set to 1 may be 1
StartBounds(st) == \A x \in st : UpBound(StartPinned(x[1], x[2])) = 1

\* CONTIGUITY: ACTIVE equals the sum of the STARTs in its window, and ACTIVE
\* is a 0/1 variable with the upper bound the factory gave it
CONTIGUITY(st, tid) ==
    \A a \in ActiveVars(tid) :
        ActiveVal(st, a[1], tid, a[2]) <= UpBound(ActivePinned(a[1], tid, a[2]))

(***************************************************************************)
(* get_problem: the constraints on START and ACTIVE.  st is the set of     *)
(* START variables that are 1.                                             *)
(***************************************************************************)
\* sum of s * START_s_tid_vid over slots_available and venue_ids
StartSlotSum(st, tid) ==
    SumFn([x \in {y \in st : /\ y[2] = tid
                              /\ y[1] \in slots_available
                              /\ y[3] \in venue_ids} |-> x[1]])

ONE_START(st, tid) ==
    Cardinality({x \in st : /\ x[2] = tid
                            /\ x[1] \in slots_available
                            /\ x[3] \in venue_ids}) = 1

\* the lists talk.venues and talk.slots are summed over as they are, so a
\* slot or venue listed twice counts twice
ALLOWED_TIME_PLACE(st, tid) ==
    SumFn([x \in {y \in st : y[2] = tid} |->
              Mult(talks_by_id(tid).slots, x[1]) * Mult(talks_by_id(tid).venues, x[3])])
    = 1

\* ONE_ACTIVE with room for two talks in a venue and slot
ONE_ACTIVE_two(st) ==
    \A vid \in venue_ids : \A slot \in slots_available :
        SumFn([i \in DOMAIN talks |-> ActiveVal(st, slot, talks[i].id, vid)]) <= 2

ONE_ACTIVE(st) ==
    \A vid \in venue_ids : \A slot \in slots_available :
        SumFn([i \in DOMAIN talks |-> ActiveVal(st, slot, talks[i].id, vid)]) <= 1

TALK_NOT_IN_BAD_SLOTS(st, tid) ==
    \A vid \in Range(talks_by_id(tid).venues) :
        \A s \in slots_available \ Range(talks_by_id(tid).slots) :
            ActiveVal(st, s, tid, vid) = 0

VENUE_NOT_IN_BAD_SLOTS(st) ==
    \A i \in DOMAIN venues : \A tid \in talk_ids :
        \A s \in slots_available \ Range(venues[i].slots) :
            ActiveVal(st, s, tid, venues[i].id) = 0

TALK_NOT_IN_INVALID_VENUE(st, tid) ==
    \A vid \in venue_ids \ Range(talks_by_id(tid).venues) :
        \A s \in slots_available :
            ActiveVal(st, s, tid, vid) = 0

PREREQS(st) ==
    \A i \in DOMAIN talks : \A t1id \in Range(talks[i].prereqs) :
        StartSlotSum(st, talks[i].id) - StartSlotSum(st, t1id)
            >= talks_by_id(t1id).duration

REST_MIN_SPACING(st) ==
    \A t2id \in rest_talks : \A t1id \in Range(talks_by_id(t2id).prereqs) :
        talks_by_id(t1id).rest = 1 =>
            StartSlotSum(st, t2id) - StartSlotSum(st, t1id)
                >= talks_by_id(t1id).duration + CeilDiv(RestMinMinutes, SLOT_INCREMENT)

REST_MAX_SPACING_none(st) ==
    TRUE

REST_MAX_SPACING(st) ==
    \A t2id \in rest_talks : \A t1id \in Range(talks_by_id(t2id).prereqs) :
        talks_by_id(t1id).rest = 1 =>
            StartSlotSum(st, t2id) - StartSlotSum(st, t1id)
                <= talks_by_id(t1id).duration + CeilDiv(RestMaxMinutes, SLOT_INCREMENT)

\* a * BIGNUM + b <= c * BIGNUM + d.  BIGNUM is 2**32 and b, d are sums of at
\* most a few hundred 0/1 variables, so the comparison is decided by a and c
\* unless they are equal
BigLeq(a, b, c, d) == a < c \/ (a = c /\ b <= d)

\* number of venues in which a talk is active at a slot (sum over venue_ids)
ActiveAnywhere(st, slot, tid) ==
    SumFn([vid \in venue_ids |-> ActiveVal(st, slot, tid, vid)])

BEFORE_REST(st) ==
    \A i \in DOMAIN talks : talks[i].before_rest = 1 =>
        \A slot \in slots_available : \A vid \in venue_ids :
            BigLeq(ActiveVal(st, slot, talks[i].id, vid) * talks[i].before_rest,
                   SumFn([t2id \in nonrest_talks \ {talks[i].id} |->
                             ActiveVal(st, slot + 1, t2id, vid)])
                   - ActiveVal(st, slot + 1, talks[i].id, vid)
                   - SumFn([t2id \in rest_talks |-> ActiveAnywhere(st, slot + 1, t2id)]),
                   1, -1)

AFTER_REST(st) ==
    \A i \in DOMAIN talks : talks[i].after_rest = 1 =>
        \A slot \in slots_available : \A vid \in venue_ids :
            BigLeq(ActiveVal(st, slot, talks[i].id, vid) * talks[i].after_rest,
                   SumFn([t2id \in nonrest_talks \ {talks[i].id} |->
                             ActiveVal(st, slot - 1, t2id, vid)])
                   - ActiveVal(st, slot - 1, talks[i].id, vid)
                   - SumFn([t2id \in rest_talks |-> ActiveAnywhere(st, slot - 1, t2id)]),
                   1, -1)

\* PLENARY_EXCLUSIVITY with room for one talk beside a plenary
PLENARY_EXCLUSIVITY_two(st) ==
    \A slot \in slots_available :
        BigLeq(SumFn([i \in DOMAIN talks |->
                         talks[i].plenary * ActiveAnywhere(st, slot, talks[i].id)]),
               SumFn([i \in DOMAIN talks |-> ActiveAnywhere(st, slot, talks[i].id)]),
               1, 2)

PLENARY_EXCLUSIVITY(st) ==
    \A slot \in slots_available :
        BigLeq(SumFn([i \in DOMAIN talks |->
                         talks[i].plenary * ActiveAnywhere(st, slot, talks[i].id)]),
               SumFn([i \in DOMAIN talks |-> ActiveAnywhere(st, slot, talks[i].id)]),
               1, 1)

\* NO_SPEAKER_CONFLICTS with room for two talks of a speaker in a slot
NO_SPEAKER_CONFLICTS_two(st) ==
    \A speaker_id \in DOMAIN talks_by_speaker :
        LET conflicts == talks_by_speaker[speaker_id]
        IN  Len(conflicts) > 1 =>
                \A slot \in slots_available :
                    SumFn([k \in DOMAIN conflicts |->
                              ActiveAnywhere(st, slot, conflicts[k])]) <= 2

NO_SPEAKER_CONFLICTS(st) ==
    \A speaker_id \in DOMAIN talks_by_speaker :
        LET conflicts == talks_by_speaker[speaker_id]
        IN  Len(conflicts) > 1 =>
                \A slot \in slots_available :
                    SumFn([k \in DOMAIN conflicts |->
                              ActiveAnywhere(st, slot, conflicts[k])]) <= 1

(***************************************************************************)
(* get_problem: the constraints on ATTEND_AT and ATTEND.  at is the set of *)
(* <<slot, talk, person>> with ATTEND_AT = 1, att the set of               *)
(* <<talk, person>> with ATTEND = 1.                                       *)
(***************************************************************************)
\* the ATTEND variables get_problem creates: attending_some is called by
\* IRL_ONLY, INVITE_ONLY, SPEAKER_ATTENDS and ATTEND_FULL_TALK only
AttendVars ==
    {<<talks[i].id, people[j].id>> : i \in DOMAIN talks, j \in DOMAIN people}
    \cap {x \in talk_ids \X people_ids :
            \/ talks_by_id(x[1]).irl_only = 1 /\ people_by_id(x[2]).attending = 0
            \/ talks_by_id(x[1]).invite_only = 1 /\ PreferenceOf(x[2], x[1]) = 0
            \/ x[2] \in Range(talks_by_id(x[1]).speakers)
            \/ talks_by_id(x[1]).meetup = 0}

AttendAtBounds(at) == \A x \in at : UpBound(AttendAtPinned(x[1], x[3])) = 1

\* ATTEND_AT_s_t_p <= sum over venue_ids of ACTIVE_s_t_v
ATTEND_AVAILABILITY(st, at) ==
    \A x \in at : ActiveAnywhere(st, x[1], x[2]) >= 1

\* the constraints below are stated for one person: pid ranges over people
\* UNIPRESENCE with room for two talks in a slot
UNIPRESENCE_two(at, pid) ==
    \A slot \in slots_available :
        Cardinality({tid \in talk_ids : <<slot, tid, pid>> \in at}) <= 2

UNIPRESENCE(at, pid) ==
    \A slot \in slots_available :
        Cardinality({tid \in talk_ids : <<slot, tid, pid>> \in at}) <= 1

\* IRL_ONLY that forgets who is remote
IRL_ONLY_nobody(att, pid) ==
    \A i \in DOMAIN talks :
        (talks[i].irl_only = 1 /\ people_by_id(pid).attending < 0)
            => <<talks[i].id, pid>> \notin att

IRL_ONLY(att, pid) ==
    \A i \in DOMAIN talks :
        (talks[i].irl_only = 1 /\ people_by_id(pid).attending = 0)
            => <<talks[i].id, pid>> \notin att

INVITE_ONLY(att, pid) ==
    \A i \in DOMAIN talks :
        (talks[i].invite_only = 1 /\ PreferenceOf(pid, talks[i].id) = 0)
            => <<talks[i].id, pid>> \notin att

\* sum of ATTEND_AT_s_tid_pid for s in the list talk.slots
AttendSlotSum(at, tid, pid) ==
    SumFn([x \in {y \in at : y[2] = tid /\ y[3] = pid} |->
              Mult(talks_by_id(tid).slots, x[1])])

SPEAKER_ATTENDS_WHOLE(at, pid) ==
    \A i \in DOMAIN talks : \A k \in DOMAIN talks[i].speakers :
        talks[i].speakers[k] = pid =>
            AttendSlotSum(at, talks[i].id, pid) = talks[i].duration

\* SPEAKER_ATTENDS that leaves the speakers of meetups alone
SPEAKER_ATTENDS_nomeetup(att, pid) ==
    \A i \in DOMAIN talks : \A k \in DOMAIN talks[i].speakers :
        (talks[i].speakers[k] = pid /\ talks[i].meetup = 0) => <<talks[i].id, pid>> \in att

SPEAKER_ATTENDS(att, pid) ==
    \A i \in DOMAIN talks : \A k \in DOMAIN talks[i].speakers :
        talks[i].speakers[k] = pid => <<talks[i].id, pid>> \in att

ATTEND_FULL_TALK(at, att, pid) ==
    \A i \in DOMAIN talks : talks[i].meetup = 0 =>
        AttendSlotSum(at, talks[i].id, pid)
        = talks[i].duration * (IF <<talks[i].id, pid>> \in att THEN 1 ELSE 0)

PERSON_AVAILABILITY(at, pid) ==
    \A x \in at :
        x[3] = pid => x[1] \notin slots_available \ Range(people_by_id(pid).slots)

(***************************************************************************)
(* The solver: every valuation that satisfies all the constraints.  The    *)
(* constraints on START / ACTIVE that read one talk only are applied talk  *)
(* by talk, the ones on ATTEND / ATTEND_AT person by person.               *)
(***************************************************************************)
\* the START valuations of one talk that satisfy the constraints on it alone
TalkFeasible(tid) ==
    {c \in KSubsets(StartVars(tid), MaxOnes) :
        /\ ONE_START(c, tid)
        /\ ALLOWED_TIME_PLACE(c, tid)
        /\ StartBounds(c)
        /\ CONTIGUITY(c, tid)
        /\ TALK_NOT_IN_BAD_SLOTS(c, tid)
        /\ TALK_NOT_IN_INVALID_VENUE(c, tid)}

RECURSIVE StartCombos(_)
StartCombos(i) ==
    IF i = 0 THEN {{}}
    ELSE LET F == TalkFeasible(talks[i].id)
         IN  {c \cup x : c \in StartCombos(i - 1), x \in F}

\* the START valuations that satisfy every constraint on START and ACTIVE
FeasibleStarts ==
    {st \in StartCombos(Len(talks)) :
        /\ PREREQS(st)
        /\ REST_MIN_SPACING(st)
        /\ REST_MAX_SPACING(st)
        /\ ONE_ACTIVE(st)
        /\ VENUE_NOT_IN_BAD_SLOTS(st)
        /\ BEFORE_REST(st)
        /\ AFTER_REST(st)
        /\ PLENARY_EXCLUSIVITY(st)
        /\ NO_SPEAKER_CONFLICTS(st)}

\* the ATTEND_AT valuations of one person and one talk worth trying: subsets
\* of the slots at which the talk is active.  When the sum over talk.slots
\* must be 0 or the duration (speaker, or no meetup) and every active slot is
\* listed once in talk.slots and there are no more of them than the duration,
\* only the empty set and the whole set can do.
AttendAtChoices(st, tid, pid) ==
    LET t == talks_by_id(tid)
        open == {x \in slots_available \X {tid} \X {pid} :
                    ATTEND_AVAILABILITY(st, {x})}
        free == t.meetup = 1 /\ pid \notin Range(t.speakers)
        plain == /\ \A x \in open : Mult(t.slots, x[1]) = 1
                 /\ Cardinality(open) <= t.duration
    IN  IF free \/ ~plain THEN SUBSET open ELSE {{}, open}

RECURSIVE AttendAtCombos(_, _, _)
AttendAtCombos(st, pid, i) ==
    IF i = 0 THEN {{}}
    ELSE LET F == AttendAtChoices(st, talks[i].id, pid)
         IN  {c \cup x : c \in AttendAtCombos(st, pid, i - 1), x \in F}

\* the ATTEND_AT / ATTEND valuations of one person, <<at, att>>, that satisfy
\* every constraint on them given the START valuation st
PersonFeasible(st, pid) ==
    {c \in AttendAtCombos(st, pid, Len(talks))
           \X (SUBSET {y \in AttendVars : y[2] = pid}) :
        /\ AttendAtBounds(c[1])
        /\ UNIPRESENCE(c[1], pid)
        /\ PERSON_AVAILABILITY(c[1], pid)
        /\ SPEAKER_ATTENDS_WHOLE(c[1], pid)
        /\ ATTEND_FULL_TALK(c[1], c[2], pid)
        /\ IRL_ONLY(c[2], pid)
        /\ INVITE_ONLY(c[2], pid)
        /\ SPEAKER_ATTENDS(c[2], pid)}

RECURSIVE AttendCombos(_, _)
AttendCombos(st, j) ==
    IF j = 0 THEN {<<{}, {}>>}
    ELSE LET F == PersonFeasible(st, people[j].id)
         IN  {<<c[1] \cup x[1], c[2] \cup x[2]>> : c \in AttendCombos(st, j - 1), x \in F}

\* every feasible valuation, as <<START, ATTEND_AT, ATTEND>>
FeasibleValuations ==
    UNION {{<<st, c[1], c[2]>> : c \in AttendCombos(st, Len(people))} :
           st \in FeasibleStarts}

(***************************************************************************)
(* schedule_talks: the list it returns, as a set of records                *)
(***************************************************************************)
Projection(st, at, att) ==
    {[slot |-> x[1], id |-> x[2], venue |-> x[3],
      attendees |-> {pid \in people_ids : <<x[2], pid>> \in att},
      partial_attendees |->
          {pid \in people_ids :
              \E offset \in 0..(talks_by_id(x[2]).duration - 1) :
                  <<x[1] + offset, x[2], pid>> \in at}] :
     x \in {y \in st : /\ y[1] \in slots_available
                       /\ y[2] \in talk_ids
                       /\ y[3] \in venue_ids}}

(***************************************************************************)
(* violated_constr / violating_var: the constraints and variables that are *)
(* not valid under the values the variables hold.  ACTIVE is read through  *)
(* its CONTIGUITY equality, so CONTIGUITY itself is never listed; names    *)
(* are kept by family (the part before the indices).                       *)
(***************************************************************************)
ConstraintFamilies ==
    {"ONE_START", "ALLOWED_TIME_PLACE", "ONE_ACTIVE", "ATTEND_AVAILABILITY",
     "UNIPRESENCE", "IRL_ONLY", "INVITE_ONLY", "SPEAKER_ATTENDS_WHOLE",
     "SPEAKER_ATTENDS", "ATTEND_FULL_TALK", "PERSON_AVAILABILITY",
     "TALK_NOT_IN_BAD_SLOTS", "VENUE_NOT_IN_BAD_SLOTS",
     "TALK_NOT_IN_INVALID_VENUE", "PREREQS", "REST_MIN_SPACING",
     "REST_MAX_SPACING", "BEFORE_REST", "AFTER_REST", "PLENARY_EXCLUSIVITY",
     "NO_SPEAKER_CONFLICTS"}

\* c.valid(0) for every constraint of a family
FamilyValid(name, st, at, att) ==
    CASE name = "ONE_START" -> \A tid \in talk_ids : ONE_START(st, tid)
      [] name = "ALLOWED_TIME_PLACE" -> \A tid \in talk_ids : ALLOWED_TIME_PLACE(st, tid)
      [] name = "ONE_ACTIVE" -> ONE_ACTIVE(st)
      [] name = "ATTEND_AVAILABILITY" -> ATTEND_AVAILABILITY(st, at)
      [] name = "UNIPRESENCE" -> \A pid \in people_ids : UNIPRESENCE(at, pid)
      [] name = "IRL_ONLY" -> \A pid \in people_ids : IRL_ONLY(att, pid)
      [] name = "INVITE_ONLY" -> \A pid \in people_ids : INVITE_ONLY(att, pid)
      [] name = "SPEAKER_ATTENDS_WHOLE" ->
             \A pid \in people_ids : SPEAKER_ATTENDS_WHOLE(at, pid)
      [] name = "SPEAKER_ATTENDS" -> \A pid \in people_ids : SPEAKER_ATTENDS(att, pid)
      [] name = "ATTEND_FULL_TALK" ->
             \A pid \in people_ids : ATTEND_FULL_TALK(at, att, pid)
      [] name = "PERSON_AVAILABILITY" ->
             \A pid \in people_ids : PERSON_AVAILABILITY(at, pid)
      [] name = "TALK_NOT_IN_BAD_SLOTS" ->
             \A tid \in talk_ids : TALK_NOT_IN_BAD_SLOTS(st, tid)
      [] name = "VENUE_NOT_IN_BAD_SLOTS" -> VENUE_NOT_IN_BAD_SLOTS(st)
      [] name = "TALK_NOT_IN_INVALID_VENUE" ->
             \A tid \in talk_ids : TALK_NOT_IN_INVALID_VENUE(st, tid)
      [] name = "PREREQS" -> PREREQS(st)
      [] name = "REST_MIN_SPACING" -> REST_MIN_SPACING(st)
      [] name = "REST_MAX_SPACING" -> REST_MAX_SPACING(st)
      [] name = "BEFORE_REST" -> BEFORE_REST(st)
      [] name = "AFTER_REST" -> AFTER_REST(st)
      [] name = "PLENARY_EXCLUSIVITY" -> PLENARY_EXCLUSIVITY(st)
      [] name = "NO_SPEAKER_CONFLICTS" -> NO_SPEAKER_CONFLICTS(st)

violated_constr(st, at, att) ==
    {name \in ConstraintFamilies : ~FamilyValid(name, st, at, att)}

\* v.valid(0): the variables whose value is outside their bounds
violating_var(st) ==
    {<<"START", x[1], x[2], x[3]>> : x \in {y \in st : ~StartBounds({y})}}
    \cup UNION {{<<"ACTIVE", a[1], tid, a[2]>> :
                    a \in {b \in ActiveVars(tid) :
                              ActiveVal(st, b[1], tid, b[2])
                              > UpBound(ActivePinned(b[1], tid, b[2]))}} :
                tid \in talk_ids}

\* the START values an infeasible solve may leave: every talk unplaced, or
\* placed once at a slot and venue it is permitted
RECURSIVE LeftStarts(_)
LeftStarts(i) ==
    IF i = 0 THEN {{}}
    ELSE LET places == {{}} \cup {{<<sl, talks[i].id, vid>>} :
                                    sl \in Range(talks[i].slots),
                                    vid \in Range(talks[i].venues)}
         IN  {c \cup x : c \in LeftStarts(i - 1), x \in places}

(***************************************************************************)
(* Python sets: self.slots_available and venue_ids are sets, and the order  *)
(* of "for x in a_set" is the order of the cells of its table               *)
(***************************************************************************)
\* the table of a set of small non-negative ints as the runtime keeps it
\* (hash(k) = k): a sequence of mask + 1 cells, cell i at index i + 1, NoKey
\* where the cell is empty.  set() starts with 8 cells.
EmptyTable == [i \in 1..8 |-> NoKey]

TableUsed(tb) == Cardinality({i \in DOMAIN tb : tb[i] /= NoKey})

TableKeys(tb) == {tb[i] : i \in {j \in DOMAIN tb : tb[j] /= NoKey}}

\* iterating a set walks the cells in index order
TableIter(tb) == SelectSeq(tb, LAMBDA k : k /= NoKey)

\* the cell of key, or the empty cell it goes to: up to 9 linear probes from
\* cell i when they stay inside the table, then i = (i * 5 + 1 + perturb) & mask
\* with perturb shifted right by 5
RECURSIVE set_lookkey(_, _, _, _)
set_lookkey(tb, key, i, perturb) ==
    LET mask == Len(tb) - 1
        probes == IF i + 9 <= mask THEN 9 ELSE 0
        hits == {j \in i..(i + probes) : tb[j + 1] = NoKey \/ tb[j + 1] = key}
    IN  IF hits /= {} THEN CHOOSE j \in hits : \A k \in hits : j <= k
        ELSE set_lookkey(tb, key, (i * 5 + 1 + (perturb \div 32)) % (mask + 1),
                         perturb \div 32)

set_insert_clean(tb, key) ==
    [tb EXCEPT ![set_lookkey(tb, key, key % Len(tb), key) + 1] = key]

\* set_insert_clean for keys[lo..hi] in order (the range is halved to keep
\* the evaluation shallow)
RECURSIVE InsertClean(_, _, _, _)
InsertClean(tb, keys, lo, hi) ==
    IF Len(tb) = 0 \/ lo > hi THEN tb
    ELSE IF lo = hi THEN set_insert_clean(tb, keys[lo])
    ELSE InsertClean(InsertClean(tb, keys, lo, (lo + hi) \div 2),
                     keys, (lo + hi) \div 2 + 1, hi)

RECURSIVE TableSize(_, _)
TableSize(n, minused) == IF n > minused THEN n ELSE TableSize(2 * n, minused)

\* a new table of the first size 8 * 2^k above minused, the keys put back in
\* the order of the old cells
set_table_resize(tb, minused) ==
    InsertClean([i \in 1..TableSize(8, minused) |-> NoKey], TableIter(tb),
                1, TableUsed(tb))

\* add one key; the table grows to 4 * used once fill * 5 >= mask * 3
set_add_entry(tb, key) ==
    IF key \in TableKeys(tb) THEN tb
    ELSE LET put == set_insert_clean(tb, key)
         IN  IF TableUsed(put) * 5 >= (Len(put) - 1) * 3
             THEN set_table_resize(put, TableUsed(put) * 4)
             ELSE put

\* set_add_entry for keys[lo..hi] in order
RECURSIVE AddEntries(_, _, _, _)
AddEntries(tb, keys, lo, hi) ==
    IF Len(tb) = 0 \/ lo > hi THEN tb
    ELSE IF lo = hi THEN set_add_entry(tb, keys[lo])
    ELSE AddEntries(AddEntries(tb, keys, lo, (lo + hi) \div 2),
                    keys, (lo + hi) \div 2 + 1, hi)

\* set(list) and a set comprehension: the keys added one by one
SetOf(keys) == AddEntries(EmptyTable, keys, 1, Len(keys))

\* so.update(other) for a set other
set_merge(so, other) ==
    IF TableUsed(other) = 0 THEN so
    ELSE LET grown == IF (TableUsed(so) + TableUsed(other)) * 5 >= (Len(so) - 1) * 3
                      THEN set_table_resize(so, (TableUsed(so) + TableUsed(other)) * 2)
                      ELSE so
         IN  IF TableUsed(grown) = 0 /\ Len(grown) = Len(other) THEN other
             ELSE IF TableUsed(grown) = 0
                  THEN InsertClean(grown, TableIter(other), 1, TableUsed(other))
             ELSE AddEntries(grown, TableIter(other), 1, TableUsed(other))

\* so.union(other): a copy of so, then other merged into it
set_union(so, other) == set_merge(set_merge(EmptyTable, so), other)

\* self.slots_available after the loop over the talks of prep_schedule:
\* self.slots_available = self.slots_available.union(set(slots)) per talk
RECURSIVE UnionTalkSlots(_, _, _)
UnionTalkSlots(tb, tks, i) ==
    IF i > Len(tks) THEN tb
    ELSE UnionTalkSlots(set_union(tb, SetOf(tks[i].slots)), tks, i + 1)

\* for slot in self.slots_available
slots_order == TableIter(slots_table)

\* for vid in venue_ids, with venue_ids = {v.id for v in venues}
venue_order == TableIter(SetOf([j \in DOMAIN venues |-> venues[j].id]))

(***************************************************************************)
(* What get_problem creates, in order, up to ONE_ACTIVE: variables and      *)
(* constraints as <<kind, a, b, c>>, NoKey for an index a name has not      *)
(***************************************************************************)
\* ss[lo] \o ... \o ss[hi]
RECURSIVE FlattenRange(_, _, _)
FlattenRange(ss, lo, hi) ==
    IF lo > hi THEN <<>>
    ELSE IF lo = hi THEN ss[lo]
    ELSE FlattenRange(ss, lo, (lo + hi) \div 2)
         \o FlattenRange(ss, (lo + hi) \div 2 + 1, hi)

Flatten(ss) == FlattenRange(ss, 1, Len(ss))

\* the elements of a set of non-negative ints, smallest first
Ascending(S) ==
    IF S = {} THEN <<>>
    ELSE LET top == CHOOSE x \in S : \A y \in S : y <= x
         IN  SelectSeq([i \in 1..(top + 1) |-> i - 1], LAMBDA x : x \in S)

\* largest first
Descending(S) ==
    LET up == Ascending(S)
    IN  [k \in DOMAIN up |-> up[Len(up) + 1 - k]]

\* ONE_START of one talk: start_var for vid in venue_ids for slot in
\* self.slots_available makes every START variable of the talk, then the
\* constraint is added
OneStartCreated(tid, vorder, sorder) ==
    Flatten([j \in DOMAIN vorder |->
                [k \in DOMAIN sorder |-> <<"START", sorder[k], tid, vorder[j]>>]])
    \o << <<"ONE_START", tid, NoKey, NoKey>> >>

\* active(slot, tid, vid), called for the k-th slot of the iteration: the
\* ACTIVE variable, the START variables of its window not made before (those
\* outside slots_available that no earlier window of the talk has), and the
\* CONTIGUITY constraint
ActiveCreated(k, tid, vid, sorder) ==
    LET slot == sorder[k]
        before == UNION {ActiveWindow(sorder[h], tid) : h \in 1..(k - 1)}
        fresh == (ActiveWindow(slot, tid) \ slots_available) \ before
        made == Descending(fresh)
    IN  << <<"ACTIVE", slot, tid, vid>> >>
        \o [h \in DOMAIN made |-> <<"START", made[h], tid, vid>>]
        \o << <<"CONTIGUITY", slot, tid, vid>> >>

\* ONE_ACTIVE of one venue and slot: active() for talk in talks, then the
\* constraint
OneActiveCreated(k, vid, sorder) ==
    Flatten([i \in DOMAIN talks |-> ActiveCreated(k, talks[i].id, vid, sorder)])
    \o << <<"ONE_ACTIVE", vid, sorder[k], NoKey>> >>

\* get_problem from ONE_START to ONE_ACTIVE with venue_ids iterated as vorder
\* and self.slots_available as sorder.  Every descriptor has the valid_venues
\* of its talks among its venues, so ALLOWED_TIME_PLACE finds its START
\* variables made.
CreatedWith(vorder, sorder) ==
    Flatten([i \in DOMAIN talks |-> OneStartCreated(talks[i].id, vorder, sorder)])
    \o [i \in DOMAIN talks |-> <<"ALLOWED_TIME_PLACE", talks[i].id, NoKey, NoKey>>]
    \o Flatten([j \in DOMAIN vorder |->
                   Flatten([k \in DOMAIN sorder |->
                               OneActiveCreated(k, vorder[j], sorder)])])

\* the orders a call of get_problem iterates in
Created == <<venue_order, slots_order>>

\* what the i-th call of get_problem created, in order
RunCreated(i) == CreatedWith(created_runs[i][1], created_runs[i][2])

(***************************************************************************)
(* Descriptors                                                             *)
(***************************************************************************)
NoRanges == <<>>
NoPreferences == <<>>

BaseTalk(id) ==
    [id |-> id, duration |-> 5, time_ranges |-> << <<0, 10>> >>,
     valid_venues |-> <<1>>, speakers |-> <<>>, preferred_venues |-> <<>>,
     preferred_time_ranges |-> NoRanges, plenary |-> 0, irl_only |-> 0,
     invite_only |-> 0, meetup |-> 0, rest |-> 0, before_rest |-> 0,
     after_rest |-> 0, prereqs |-> <<>>, spacing_slots |-> NoKey]

BasePerson(id, name) ==
    [id |-> id, name |-> name, attending |-> 1, time_ranges |-> << <<0, 30>> >>,
     preferred_time_ranges |-> NoRanges, preferences |-> NoPreferences]

BaseVenue(id) == [id |-> id, time_ranges |-> << <<0, 30>> >>]

\* time ranges of a talk: one range, two overlapping ranges (slots listed
\* twice), two ranges with a gap between them (a night)
TalkRanges ==
    { << <<0, 10>> >>, << <<5, 20>> >>,
      << <<0, 10>>, <<5, 15>> >>, << <<0, 5>>, <<20, 30>> >> }

\* two talks in two venues, nobody to attend: placement, plenaries, prereqs
\* with venue 1 open all along, plain talks with venue 1 closing early
PlacementDescriptors ==
    {[talks |-> << [BaseTalk(1) EXCEPT !.time_ranges = r1, !.duration = d[1],
                                       !.valid_venues = vv[1], !.plenary = c[1][1]],
                   [BaseTalk(2) EXCEPT !.time_ranges = r2, !.duration = d[2],
                                       !.valid_venues = vv[2], !.plenary = c[1][2],
                                       !.prereqs = c[2]] >>,
      people |-> <<>>,
      venues |-> << [BaseVenue(1) EXCEPT !.time_ranges = c[3]], BaseVenue(2) >>] :
     r1 \in {<< <<0, 10>> >>, << <<0, 10>>, <<5, 15>> >>}, r2 \in TalkRanges,
     d \in {<<5, 5>>, <<10, 5>>},
     vv \in {<< <<1>>, <<1>> >>, << <<1>>, <<1, 2>> >>},
     c \in ({<<0, 0>>, <<1, 0>>, <<1, 1>>} \X {<<>>, <<1>>} \X {<< <<0, 30>> >>})
            \cup {<< <<0, 0>>, <<>>, << <<0, 10>> >> >>}}

\* how talk 1 is gated and what the two people are: <<irl_only, invite_only,
\* ann attending, ann preferences, bob attending, bob preferences>>
GatingProfiles ==
    { <<0, 0, 1, NoPreferences, 1, NoPreferences>>,
      <<1, 0, 1, NoPreferences, 0, NoPreferences>>,
      <<1, 0, 1, NoPreferences, 1, NoPreferences>>,
      <<1, 0, 0, NoPreferences, 1, NoPreferences>>,
      <<0, 1, 1, <<1>>, 1, NoPreferences>>,
      <<0, 1, 1, <<1>>, 1, <<0>> >>,
      <<0, 1, 1, <<1>>, 1, <<1>> >>,
      <<0, 1, 1, NoPreferences, 1, <<1>> >>,
      <<0, 1, 1, <<0, 1>>, 0, <<2>> >> }

\* two talks in a venue each and two people: attendance, speakers, gating
AttendanceDescriptors ==
    {[talks |-> << [BaseTalk(1) EXCEPT !.time_ranges = r1, !.speakers = sp[1],
                                       !.meetup = mu, !.irl_only = g[1],
                                       !.invite_only = g[2]],
                   [BaseTalk(2) EXCEPT !.time_ranges = << <<0, 5>> >>,
                                       !.valid_venues = <<2>>,
                                       !.speakers = sp[2]] >>,
      people |-> << [BasePerson(1, "ann") EXCEPT !.attending = g[3],
                                                 !.preferences = g[4]],
                    [BasePerson(2, "bob") EXCEPT !.attending = g[5],
                                                 !.preferences = g[6],
                                                 !.time_ranges = br] >>,
      venues |-> << BaseVenue(1), BaseVenue(2) >>] :
     r1 \in {<< <<0, 5>> >>, << <<0, 10>>, <<5, 15>> >>},
     sp \in {<< <<>>, <<>> >>, << <<"ann">>, <<>> >>,
             << <<"ann">>, <<"bob">> >>, << <<"ann">>, <<"ann">> >>},
     mu \in {0, 1},
     g \in GatingProfiles,
     br \in {<< <<0, 30>> >>, << <<0, 5>> >>}}

\* two talks in one venue over two and a half hours, in one stretch or with a
\* break of a quarter of an hour: spacing of rests
RestDescriptors ==
    {[talks |-> << [BaseTalk(1) EXCEPT !.time_ranges = c[1], !.rest = c[2]],
                   [BaseTalk(2) EXCEPT !.time_ranges = c[1], !.rest = c[3],
                                       !.prereqs = <<1>>] >>,
      people |-> <<>>,
      venues |-> << [BaseVenue(1) EXCEPT !.time_ranges = << <<0, 150>> >>] >>] :
     c \in {<< << <<0, 150>> >>, 1, 1>>,
            << << <<0, 75>>, <<90, 150>> >>, 1, 1>>,
            << << <<0, 75>> >>, 1, 1>>,
            << << <<0, 75>> >>, 0, 1>>,
            << << <<0, 75>> >>, 1, 0>>}}

\* two talks in a venue each, ann speaking at the first and ann or bob at the
\* second (ann listed twice in one case): talks that share a speaker
SpeakerDescriptors ==
    {[talks |-> << [BaseTalk(1) EXCEPT !.time_ranges = r1, !.duration = 10,
                                       !.speakers = <<"ann">>],
                   [BaseTalk(2) EXCEPT !.time_ranges = r2, !.valid_venues = <<2>>,
                                       !.speakers = sp2] >>,
      people |-> << BasePerson(1, "ann"), BasePerson(2, "bob") >>,
      venues |-> << BaseVenue(1), BaseVenue(2) >>] :
     r1 \in {<< <<0, 15>> >>, << <<0, 10>>, <<5, 15>> >>},
     r2 \in {<< <<0, 15>> >>, << <<10, 20>> >>, << <<15, 25>> >>},
     sp2 \in {<<"ann">>, <<"bob">>, <<"ann", "ann">>}}

\* a ten-minute talk that is allowed five minutes only, beside a talk that
\* may or may not make later slots available
ShortDescriptors ==
    {[talks |-> << [BaseTalk(1) EXCEPT !.time_ranges = << <<0, 5>> >>,
                                       !.duration = 10, !.speakers = sp1],
                   [BaseTalk(2) EXCEPT !.time_ranges = r2, !.valid_venues = <<2>>] >>,
      people |-> << BasePerson(1, "ann") >>,
      venues |-> << BaseVenue(1), BaseVenue(2) >>] :
     sp1 \in {<<>>, <<"ann">>},
     r2 \in {<< <<0, 5>> >>, << <<0, 15>> >>, << <<10, 20>> >>}}

\* scenario S3: two 60-minute talks, the second with the first as prereq, both
\* allowed 09:00-11:00 or 09:00-11:05, one venue open at least as long, the
\* speakers available as long as the talks are allowed
S3Descriptors ==
    {[talks |-> << [BaseTalk(1) EXCEPT !.time_ranges = << <<0, w[1]>> >>,
                                       !.duration = 60, !.speakers = <<"ann">>],
                   [BaseTalk(2) EXCEPT !.time_ranges = << <<0, w[1]>> >>,
                                       !.duration = 60, !.speakers = sp2,
                                       !.prereqs = <<1>>] >>,
      people |-> << [BasePerson(1, "ann") EXCEPT !.time_ranges = << <<0, w[1]>> >>],
                    [BasePerson(2, "bob") EXCEPT !.time_ranges = << <<0, w[1]>> >>] >>,
      venues |-> << [BaseVenue(1) EXCEPT !.time_ranges = << <<0, w[2]>> >>] >>] :
     w \in {<<120, 120>>, <<120, 130>>, <<125, 130>>},
     sp2 \in {<<"bob">>}}

\* scenario S4: two 30-minute rests, the second with the first as prereq, both
\* allowed 10:00-14:00 in one venue open as long
S4Descriptors ==
    {[talks |-> << [BaseTalk(1) EXCEPT !.time_ranges = << <<0, 240>> >>,
                                       !.duration = 30, !.rest = 1],
                   [BaseTalk(2) EXCEPT !.time_ranges = << <<0, 240>> >>,
                                       !.duration = 30, !.rest = 1,
                                       !.prereqs = <<1>>] >>,
      people |-> <<>>,
      venues |-> << [BaseVenue(1) EXCEPT !.time_ranges = << <<0, 240>> >>] >>]}

\* scenario S6: two 5-minute talks by the same speaker, in different venues,
\* both allowed 09:00-09:05 only, so every placement has them overlap
S6Descriptors ==
    {[talks |-> << [BaseTalk(1) EXCEPT !.time_ranges = << <<0, 5>> >>,
                                       !.speakers = <<"ann">>],
                   [BaseTalk(2) EXCEPT !.time_ranges = << <<0, 5>> >>,
                                       !.valid_venues = <<2>>,
                                       !.speakers = <<"ann">>] >>,
      people |-> << BasePerson(1, "ann"), BasePerson(2, "bob") >>,
      venues |-> << BaseVenue(1), BaseVenue(2) >>]}

\* one talk allowed in the morning, or in the morning and again after a break,
\* and two venues listed in either order
AssemblyDescriptors ==
    {[talks |-> << [BaseTalk(1) EXCEPT !.time_ranges = r, !.valid_venues = <<1, 2>>] >>,
      people |-> <<>>,
      venues |-> vs] :
     r \in {<< <<0, 10>> >>, << <<0, 10>>, <<75, 85>> >>},
     vs \in {<< BaseVenue(1), BaseVenue(2) >>, << BaseVenue(2), BaseVenue(1) >>}}

\* a talk flagged before_rest or after_rest and a rest talk, in the same venue
\* or in two venues
FlaggedDescriptors ==
    {[talks |-> << [BaseTalk(1) EXCEPT !.time_ranges = << <<0, 15>> >>,
                                       !.before_rest = f[1], !.after_rest = f[2]],
                   [BaseTalk(2) EXCEPT !.time_ranges = << <<0, 15>> >>,
                                       !.rest = 1, !.valid_venues = vv] >>,
      people |-> <<>>,
      venues |-> << BaseVenue(1), BaseVenue(2) >>] :
     f \in {<<1, 0>>, <<0, 1>>}, vv \in {<<1>>, <<2>>}}

\* two talks with preferred time ranges of their own, or with none
PreferredDescriptors ==
    {[talks |-> << [BaseTalk(1) EXCEPT !.preferred_time_ranges = p[1]],
                   [BaseTalk(2) EXCEPT !.preferred_time_ranges = p[2],
                                       !.valid_venues = <<2>>] >>,
      people |-> <<>>,
      venues |-> << BaseVenue(1), BaseVenue(2) >>] :
     p \in {<< << <<0, 5>> >>, << <<5, 10>> >> >>,
            << << <<0, 5>> >>, NoRanges >>,
            << NoRanges, << <<0, 5>> >> >>,
            << << <<0, 5>> >>, << <<0, 5>> >> >>}}

\* two talks in a venue each, one or both with a spacing_slots key
SpacingDescriptors ==
    {[talks |-> << [BaseTalk(1) EXCEPT !.spacing_slots = k[1]],
                   [BaseTalk(2) EXCEPT !.spacing_slots = k[2],
                                       !.valid_venues = <<2>>] >>,
      people |-> <<>>,
      venues |-> << BaseVenue(1), BaseVenue(2) >>] :
     k \in (((0..MaxSpacing) \cup {NoKey}) \X ((0..MaxSpacing) \cup {NoKey}))
            \ {<<NoKey, NoKey>>}}

Descriptors ==
    PlacementDescriptors \cup AttendanceDescriptors \cup RestDescriptors
    \cup SpeakerDescriptors \cup ShortDescriptors \cup S3Descriptors \cup S4Descriptors
    \cup S6Descriptors \cup AssemblyDescriptors \cup FlaggedDescriptors
    \cup PreferredDescriptors \cup SpacingDescriptors

(***************************************************************************)
(* Actions                                                                 *)
(***************************************************************************)
Init ==
    /\ schedule \in Descriptors
    /\ spacing_arg \in 0..MaxSpacing
    /\ binary_keeps_bounds \in BOOLEAN
    /\ pc = "start"
    /\ status = "Not Solved"
    /\ talks = <<>>
    /\ people = <<>>
    /\ venues = <<>>
    /\ slots_available = {}
    /\ talks_by_speaker = <<>>
    /\ START = {}
    /\ ATTEND_AT = {}
    /\ ATTEND = {}
    /\ solved = {}
    /\ talk_data = <<>>
    /\ suspected_constr = {}
    /\ suspected_var = {}
    /\ outfile = <<>>
    /\ slots_table = EmptyTable
    /\ created_runs = <<>>

\* prep_schedule, called by schedule() or, before get_problem, by a caller
\* that assembles the problem again on the same SlotMachine
PrepSchedule ==
    /\ pc \in {"start", "assembled"}
    /\ pc' = "prepped"
    /\ people' = [j \in DOMAIN schedule.people |->
                     PrepPerson(schedule, spacing_arg, schedule.people[j])]
    /\ venues' = [j \in DOMAIN schedule.venues |-> PrepVenue(schedule, schedule.venues[j])]
    /\ talks' = [i \in DOMAIN schedule.talks |-> PrepTalk(schedule, spacing_arg, i)]
    /\ slots_table' = UnionTalkSlots(slots_table, talks', 1)
    /\ slots_available' = TableKeys(slots_table')
    /\ talks_by_speaker' = BySpeaker(talks')
    /\ UNCHANGED <<schedule, spacing_arg, binary_keeps_bounds, status, START,
                   ATTEND_AT, ATTEND, solved, talk_data, suspected_constr,
                   suspected_var, outfile, created_runs>>

\* get_problem called on its own after prep_schedule
GetProblem ==
    /\ pc = "prepped"
    /\ Len(created_runs) < MaxRuns
    /\ created_runs' = Append(created_runs, Created)
    /\ pc' = "assembled"
    /\ UNCHANGED <<schedule, spacing_arg, binary_keeps_bounds, status, talks, people,
                   venues, slots_available, talks_by_speaker, START, ATTEND_AT,
                   ATTEND, solved, talk_data, suspected_constr, suspected_var,
                   outfile, slots_table>>

\* the problem is not Optimal: violated_constr and violating_var walk the
\* constraints and variables with the values the solve left.  Either the
\* variables have no value and c.valid(0) fails on the first constraint, or
\* the lists are made from a valuation left (all zero when left is {{}}) and
\* Unsatisfiable is raised.
Diagnose(left) ==
    \/ /\ pc' = "type_error"
       /\ UNCHANGED <<suspected_constr, suspected_var>>
    \/ /\ \E st \in left :
             /\ suspected_constr' = violated_constr(st, {}, {})
             /\ suspected_var' = violating_var(st)
       /\ pc' = "unsatisfiable"

\* schedule_talks: get_problem, solve, and either the projection of the
\* valuation the solver returns with status Optimal, or the diagnosis and
\* Unsatisfiable on any other status (no valuation exists, or the time limit
\* passed before one was found)
ScheduleTalks ==
    /\ pc = "prepped"
    /\ LET feasible == FeasibleValuations
       IN  \/ \E val \in feasible :
                /\ START' = val[1]
                /\ ATTEND_AT' = val[2]
                /\ ATTEND' = val[3]
                /\ solved' = Projection(val[1], val[2], val[3])
                /\ status' = "Optimal"
                /\ pc' = "solved"
                /\ created_runs' = Append(created_runs, Created)
                /\ UNCHANGED <<suspected_constr, suspected_var>>
           \/ /\ feasible = {}
              /\ status' = "Infeasible"
              /\ Diagnose(LeftStarts(Len(talks)))
              /\ created_runs' = Append(created_runs, Created)
              /\ UNCHANGED <<START, ATTEND_AT, ATTEND, solved>>
           \/ /\ status' = "Not Solved"
              /\ Diagnose({{}})
              /\ created_runs' = Append(created_runs, Created)
              /\ UNCHANGED <<START, ATTEND_AT, ATTEND, solved>>
    /\ UNCHANGED <<schedule, spacing_arg, binary_keeps_bounds, talks, people, venues,
                   slots_available, talks_by_speaker, talk_data, outfile,
                   slots_table>>

\* schedule() writes the result into the talk records
ScheduleAnnotate ==
    /\ pc = "solved"
    /\ \E pick \in [{r.id : r \in solved} -> solved] :
        /\ \A tid \in DOMAIN pick : pick[tid].id = tid
        /\ talk_data' =
              [tid \in DOMAIN pick |->
                  [slot |-> pick[tid].slot,
                   time |-> event_start(schedule) + pick[tid].slot * SLOT_INCREMENT,
                   end_time |-> event_start(schedule)
                       + (pick[tid].slot + talks_by_id(tid).duration) * SLOT_INCREMENT,
                   venue |-> pick[tid].venue,
                   attendees |-> pick[tid].attendees,
                   partial_attendees |-> pick[tid].partial_attendees]]
    /\ pc' = "done"
    /\ UNCHANGED <<schedule, spacing_arg, binary_keeps_bounds, status, talks, people,
                   venues, slots_available, talks_by_speaker, START, ATTEND_AT,
                   ATTEND, solved, suspected_constr, suspected_var, outfile,
                   slots_table, created_runs>>

\* schedule_from_file: schedule() has returned, the result is dumped to outfile
WriteOutfile ==
    /\ pc = "done"
    /\ outfile' = <<talk_data>>
    /\ pc' = "written"
    /\ UNCHANGED <<schedule, spacing_arg, binary_keeps_bounds, status, talks, people,
                   venues, slots_available, talks_by_speaker, START, ATTEND_AT,
                   ATTEND, solved, talk_data, suspected_constr, suspected_var,
                   slots_table, created_runs>>

Next ==
    \/ PrepSchedule
    \/ ScheduleTalks
    \/ ScheduleAnnotate
    \/ WriteOutfile

Spec == Init /\ [][Next]_vars

\* a caller that assembles the problem of one descriptor repeatedly on one
\* SlotMachine, without solving it
AssemblyNext ==
    \/ PrepSchedule
    \/ GetProblem

AssemblySpec == Init /\ [][AssemblyNext]_vars

(***************************************************************************)
(* Properties                                                              *)
(***************************************************************************)
\* what the solver returned is in START, ATTEND_AT, ATTEND and solved
Solved == pc = "solved"

\* the duration, in slots, of the talk of a result tuple
DurationOf(tid) == talks_by_id(tid).duration

\* C1: in every feasible valuation each talk has exactly one START variable
\* equal to 1, and schedule_talks returns exactly one tuple per talk.
C1_OneStartPerTalk ==
    Solved => \A tid \in talk_ids :
                /\ Cardinality({x \in START : x[2] = tid}) = 1
                /\ Cardinality({r \in solved : r.id = tid}) = 1

C3_StartIsPermitted ==
    Solved => \A x \in START :
                /\ x[1] \in Range(talks_by_id(x[2]).slots)
                /\ x[3] \in Range(talks_by_id(x[2]).venues)

\* the tuples schedule_talks returns are within the talk's slots and venues
EmittedStartIsPermitted ==
    Solved => \A r \in solved :
                /\ r.slot \in Range(talks_by_id(r.id).slots)
                /\ r.venue \in Range(talks_by_id(r.id).venues)

C5_PrereqsFirst ==
    Solved => \A x2 \in START : \A x1 \in START :
                x1[2] \in Range(talks_by_id(x2[2]).prereqs)
                    => x2[1] >= x1[1] + DurationOf(x1[2])

\* the tuples schedule_talks returns respect the prerequisites
EmittedPrereqsFirst ==
    Solved => \A r2 \in solved : \A r1 \in solved :
                r1.id \in Range(talks_by_id(r2.id).prereqs)
                    => r2.slot >= r1.slot + DurationOf(r1.id)

\* C6: for every slot and person at most one talk has ATTEND_AT = 1.
C6_OneTalkAtATime ==
    Solved => \A x \in ATTEND_AT : \A y \in ATTEND_AT :
                (x[1] = y[1] /\ x[3] = y[3]) => x[2] = y[2]

\* C6 witness: two talks are active in the same slot and somebody attends one.
C6_Witness ==
    /\ Solved
    /\ \E x \in ATTEND_AT : \E tid \in talk_ids \ {x[2]} :
          ActiveAnywhere(START, x[1], tid) >= 1

\* the number of distinct slots at which a person attends a talk
AttendedSlots(tid, pid) ==
    Cardinality({x \in ATTEND_AT : x[2] = tid /\ x[3] = pid})

\* C7: for a talk that is no meetup, a person attends 0 or duration distinct
\* slots of it, and duration slots exactly when ATTEND = 1.
C7_FullTalkOrNothing ==
    Solved => \A i \in DOMAIN talks : \A pid \in people_ids :
                talks[i].meetup = 0 =>
                    /\ AttendedSlots(talks[i].id, pid) \in {0, talks[i].duration}
                    /\ AttendedSlots(talks[i].id, pid) = talks[i].duration
                          <=> <<talks[i].id, pid>> \in ATTEND

\* C8: every speaker of a talk is among the attendees schedule_talks returns
\* for it.
C8_SpeakersAttend ==
    Solved => \A r \in solved : Range(talks_by_id(r.id).speakers) \subseteq r.attendees

\* C8 witness: a talk with a speaker is in the result.
C8_Witness ==
    /\ Solved
    /\ \E r \in solved : talks_by_id(r.id).speakers /= <<>>

\* the pairs <<talk, person>> IRL_ONLY and INVITE_ONLY are about
Gated ==
    {x \in talk_ids \X people_ids :
        \/ talks_by_id(x[1]).irl_only = 1 /\ people_by_id(x[2]).attending = 0
        \/ /\ talks_by_id(x[1]).invite_only = 1
           /\ \/ x[1] \notin DOMAIN people_by_id(x[2]).preferences
              \/ people_by_id(x[2]).preferences[x[1]] = 0}

\* C9: a person who is remote never attends an irl_only talk, and a person
\* without a positive preference never attends an invite_only talk: ATTEND is
\* 0 and the person is not in the attendees returned.
C9_GatedOut ==
    Solved => \A x \in Gated :
                /\ x \notin ATTEND
                /\ \A r \in solved : r.id = x[1] => x[2] \notin r.attendees

\* C9 witness: a gated person is free during the whole of the gated talk.
C9_Witness ==
    /\ Solved
    /\ \E x \in Gated : \E r \in solved :
          /\ r.id = x[1]
          /\ x[2] \notin Range(talks_by_id(x[1]).speakers)
          /\ \A k \in 0..(DurationOf(r.id) - 1) :
                r.slot + k \in Range(people_by_id(x[2]).slots)

\* C10: in every feasible valuation, the START variable equal to 1 of a rest
\* with a rest among its prerequisites is between duration + 12 and
\* duration + 24 slots after the START variable equal to 1 of that rest.
C10_RestSpacing ==
    Solved => \A x2 \in START : \A x1 \in START :
                (/\ talks_by_id(x2[2]).rest = 1
                 /\ talks_by_id(x1[2]).rest = 1
                 /\ x1[2] \in Range(talks_by_id(x2[2]).prereqs))
                    => /\ x2[1] - x1[1] >= DurationOf(x1[2]) + 12
                       /\ x2[1] - x1[1] <= DurationOf(x1[2]) + 24

\* the tuples schedule_talks returns keep rests 60 to 120 minutes apart
EmittedRestSpacing ==
    Solved => \A r2 \in solved : \A r1 \in solved :
                (/\ talks_by_id(r2.id).rest = 1
                 /\ talks_by_id(r1.id).rest = 1
                 /\ r1.id \in Range(talks_by_id(r2.id).prereqs))
                    => /\ r2.slot - r1.slot >= DurationOf(r1.id) + 12
                       /\ r2.slot - r1.slot <= DurationOf(r1.id) + 24

\* the talks a person speaks at
TalksOfSpeaker(pid) == {tid \in talk_ids : pid \in Range(talks_by_id(tid).speakers)}

ShortOfSlots ==
    {i \in DOMAIN talks : Cardinality(Range(talks[i].slots)) < talks[i].duration}

\* C12: when a talk has fewer slots than its duration there is no feasible
\* valuation: schedule_talks never returns a result.
C12_TooFewSlotsUnsatisfiable ==
    pc \in {"solved", "done", "written"} => ShortOfSlots = {}

\* with the bounds of the pruned variables honoured, a talk with fewer slots
\* than its duration is never scheduled
TooFewSlotsUnsatisfiableWithBounds ==
    (binary_keeps_bounds /\ pc \in {"solved", "done", "written"}) => ShortOfSlots = {}

\* schedule_talks has run and the status is not Optimal
NotOptimal == pc \notin {"start", "prepped"} /\ status /= "Optimal"

\* C13: whenever the status after solve is not Optimal, schedule_talks makes
\* the diagnosis and raises Unsatisfiable, nothing is returned, no talk
\* record gets a field and the output file is not written.
C13_NonOptimalRaisesUnsatisfiable ==
    NotOptimal => /\ pc = "unsatisfiable"
                  /\ solved = {}
                  /\ talk_data = <<>>
                  /\ outfile = <<>>

\* whatever ends a solve that is not Optimal, nothing is returned, no talk
\* record gets a field and the output file is not written
NonOptimalLeavesNoResult ==
    NotOptimal => /\ pc \in {"unsatisfiable", "type_error"}
                  /\ solved = {}
                  /\ talk_data = <<>>
                  /\ outfile = <<>>

\* schedule_talks has returned a result
Returned == pc \in {"solved", "done", "written"}

\* schedule(spacing_slots: int = 1)
DefaultSpacing == 1

\* scenario S3 as described: both talks allowed 09:00-11:00, default spacing
IsS3 ==
    /\ schedule \in S3Descriptors
    /\ schedule.talks[1].time_ranges = << <<0, 120>> >>
    /\ spacing_arg = DefaultSpacing

\* scenario S3 with the talks and speakers allowed five minutes longer
IsS3Wide ==
    /\ schedule \in S3Descriptors
    /\ schedule.talks[1].time_ranges = << <<0, 125>> >>
    /\ spacing_arg = DefaultSpacing

\* every START variable of talk 2 at 1 is at least n slots after every START
\* variable of talk 1 at 1
StartsApart(n) ==
    \A a \in START, b \in START : (a[2] = 1 /\ b[2] = 2) => b[1] >= a[1] + n

S3WideScheduled ==
    /\ IsS3Wide /\ Returned
    /\ \E a \in START, b \in START : a[2] = 1 /\ b[2] = 2 /\ b[1] = a[1] + 13

\* scenario S4 at the default spacing
IsS4 == schedule \in S4Descriptors /\ spacing_arg = DefaultSpacing

\* the differences start(talk 2) - start(talk 1) over the START variables at 1
StartGaps == {b[1] - a[1] : <<a, b>> \in {x \in START \X START : x[1][2] = 1 /\ x[2][2] = 2}}

\* C15 as stated: in scenario S4 at the default spacing every feasible
\* schedule has start(R2) - start(R1) between 18 and 30 slots.
C15_RestWindowSixPlus == (IsS4 /\ Returned) => StartGaps \subseteq 18..30

\* C15 as the code has it: at the default spacing a 30-minute rest has
\* duration 7, and every feasible schedule of scenario S4 has
\* start(R2) - start(R1) between 19 and 31 slots (7+12 to 7+24).
C15_RestWindowSevenPlus == (IsS4 /\ Returned) => StartGaps \subseteq 19..31

C15_Witness == IsS4 /\ Returned /\ StartGaps = {31}

IsS6 == schedule \in S6Descriptors

\* C16: in scenario S6 the problem is infeasible, schedule fails with
\* Unsatisfiable, and the names returned by violated_constr include one of
\* the NO_SPEAKER_CONFLICTS family.
C16_DiagnosisNamesSpeakerConflict ==
    (IsS6 /\ pc \notin {"start", "prepped"}) =>
        /\ status = "Infeasible" => pc = "unsatisfiable"
        /\ pc = "unsatisfiable" => "NO_SPEAKER_CONFLICTS" \in suspected_constr

\* scenario S6 is never scheduled
S6NeverReturned == IsS6 => ~Returned

\* the diagnosis of scenario S6 can name the NO_SPEAKER_CONFLICTS family:
\* never naming it is refuted
S6DiagnosisNeverNamesSpeakerConflict ==
    (IsS6 /\ pc = "unsatisfiable") => "NO_SPEAKER_CONFLICTS" \notin suspected_constr

\* venues in descriptor order
DescriptorVenues == [j \in DOMAIN venues |-> venues[j].id]

\* C17: every get_problem call after prep_schedule on the same descriptor
\* creates the same variables and named constraints in the same order as the
\* first, and that order has the talks in descriptor order, the slots
\* ascending and the venues in descriptor order.
C17_AssemblyDeterministic ==
    \A i \in DOMAIN created_runs :
        /\ RunCreated(i) = RunCreated(1)
        /\ RunCreated(i) = CreatedWith(DescriptorVenues, Ascending(slots_available))

\* every call creates the same variables and constraints as the first,
\* whatever the order
AssemblySameNames ==
    \A i \in DOMAIN created_runs : Range(RunCreated(i)) = Range(RunCreated(1))

\* every call creates in the same order as the first
AssemblySameOrder ==
    \A i \in DOMAIN created_runs : RunCreated(i) = RunCreated(1)

\* every call creates with the slots ascending
AssemblySlotsAscending ==
    \A i \in DOMAIN created_runs :
        RunCreated(i) = CreatedWith(created_runs[i][1], Ascending(slots_available))

\* every call creates with the venues in descriptor order
AssemblyVenuesInDescriptorOrder ==
    \A i \in DOMAIN created_runs :
        RunCreated(i) = CreatedWith(DescriptorVenues, created_runs[i][2])

\* every call creates with the venues by ascending id
AssemblyVenuesAscending ==
    \A i \in DOMAIN created_runs :
        RunCreated(i) = CreatedWith(Ascending(venue_ids), created_runs[i][2])

\* a returned tuple r has its talk active, among the ACTIVE variables that
\* exist, exactly in the venue r.venue at the slots r.slot..r.slot+duration-1,
\* and those slots are all available and among the slots of the talk
ActiveAsReturned(r) ==
    /\ \A a \in ActiveVars(r.id) :
          ActiveVal(START, a[1], r.id, a[2]) = 1
              <=> (a[2] = r.venue /\ a[1] \in r.slot..(r.slot + DurationOf(r.id) - 1))
    /\ \A a \in ActiveVars(r.id) : ActiveVal(START, a[1], r.id, a[2]) \in {0, 1}
    /\ r.slot..(r.slot + DurationOf(r.id) - 1)
          \subseteq slots_available \cap Range(talks_by_id(r.id).slots)

\* C18: in every feasible valuation every talk, started at (s0, v0), has
\* ACTIVE(s,t,v) = 1 exactly for v = v0 and s0 <= s < s0 + duration(t), so it
\* is active in duration(t) consecutive slots of one venue, all of them in
\* slots_available and in talk.slots.
C18_ActiveExactlyTheDuration ==
    Solved => \A r \in solved : ActiveAsReturned(r)

\* with the bounds of the pruned variables honoured, every returned talk is
\* active exactly over its duration
ActiveExactlyTheDurationWithBounds ==
    (binary_keeps_bounds /\ Solved) => \A r \in solved : ActiveAsReturned(r)

\* no ACTIVE variable that exists is 1 at a slot outside the slots of its venue
ActiveInsideVenueSlots ==
    \A tid \in talk_ids : \A a \in ActiveVars(tid) :
        ActiveVal(START, a[1], tid, a[2]) >= 1
            => a[1] \in Range(venues_by_id(a[2]).slots)

\* every returned talk has its whole duration inside the slots of its venue
DurationInsideVenueSlots ==
    \A r \in solved :
        r.slot..(r.slot + DurationOf(r.id) - 1) \subseteq Range(venues_by_id(r.venue).slots)

\* C19: in every feasible valuation no talk is active in a venue at a slot
\* outside the venue's own slots: the whole duration of a talk, spacing slots
\* included, lies inside the opening times of the venue it is placed in.
C19_InsideVenueOpening ==
    Solved => ActiveInsideVenueSlots /\ DurationInsideVenueSlots

\* the ACTIVE variables alone are never 1 outside the slots of their venue
ActiveNeverOutsideVenueSlots == Solved => ActiveInsideVenueSlots

\* with the bounds of the pruned variables honoured, the whole duration of
\* every returned talk is inside the slots of its venue
InsideVenueOpeningWithBounds ==
    (binary_keeps_bounds /\ Solved) => ActiveInsideVenueSlots /\ DurationInsideVenueSlots

\* the meetup talks
MeetupTalks == {talks[i].id : i \in {k \in DOMAIN talks : talks[k].meetup = 1}}

\* C20: in every feasible valuation, for a meetup talk t and any person p,
\* ATTEND(t,p) = 1 if and only if ATTEND_AT(s,t,p) = 1 for at least one slot
\* s; hence a person with ATTEND(t,p) = 0 is never among the
\* partial_attendees returned for t.
C20_MeetupAttendIffAttendAt ==
    Solved => \A tid \in MeetupTalks : \A pid \in people_ids :
                /\ <<tid, pid>> \in ATTEND <=> AttendedSlots(tid, pid) > 0
                /\ <<tid, pid>> \notin ATTEND =>
                      \A r \in solved : r.id = tid => pid \notin r.partial_attendees

\* a person gated out of a meetup talk by IRL_ONLY or INVITE_ONLY is never
\* among the partial_attendees returned for it
GatedOutOfMeetupNeverPartial ==
    Solved => \A x \in Gated : x[1] \in MeetupTalks =>
                \A r \in solved : r.id = x[1] => x[2] \notin r.partial_attendees

\* for a talk that is not a meetup, ATTEND is 1 exactly when some ATTEND_AT is
NonMeetupAttendIffAttendAt ==
    Solved => \A tid \in talk_ids \ MeetupTalks : \A pid \in people_ids :
                <<tid, pid>> \in ATTEND <=> AttendedSlots(tid, pid) > 0

(***************************************************************************)
(* The adjacency variables.  ADJACENT_OR_BEFORE_V and ADJACENT_V are plain *)
(* Binary variables that only the three constraint families below and the  *)
(* objective mention; schedule_talks never reads them back.  For a START   *)
(* valuation the values the solver may give them are therefore computed    *)
(* from it: a set of triples <<t1, t2, vid>> holds the variables that are  *)
(* 1.  Every START valuation admits the all-zero assignment, so the        *)
(* families do not make any START valuation infeasible.                    *)
(***************************************************************************)
\* sum of START_s_tid_vid over slots_available, in one venue
StartCountIn(st, tid, vid) ==
    Cardinality({x \in st : x[2] = tid /\ x[3] = vid /\ x[1] \in slots_available})

\* sum of s * START_s_tid_vid over slots_available, in one venue
StartSlotSumIn(st, tid, vid) ==
    SumFn([x \in {y \in st : y[2] = tid /\ y[3] = vid /\ y[1] \in slots_available}
              |-> x[1]])

AdjacencyTriples == talk_ids \X talk_ids \X venue_ids

\* the value of a 0/1 variable held as a set of triples
Val(set, t1, t2, vid) == IF <<t1, t2, vid>> \in set THEN 1 ELSE 0

\* sum(s * START(s,t2,vid)) - sum(s * START(s,t1,vid)) + 3 * BIGNUM * AOB(t1,t2,vid)
\*    <= BIGNUM * (1 + sum(START(s,t1,vid)) + sum(START(s,t2,vid))) + talk1.duration
ADJACENT_OR_BEFORE_C(st, aob) ==
    \A t1 \in talk_ids : \A t2 \in talk_ids : \A vid \in venue_ids :
        BigLeq(3 * Val(aob, t1, t2, vid),
               StartSlotSumIn(st, t2, vid) - StartSlotSumIn(st, t1, vid),
               1 + StartCountIn(st, t1, vid) + StartCountIn(st, t2, vid),
               talks_by_id(t1).duration)

\* AOB(t1,t2,vid) + AOB(t2,t1,vid) - 1 <= ADJACENT(t1,t2,vid)
ADJACENT_C(aob, adj) ==
    \A t1 \in talk_ids : \A t2 \in talk_ids : \A vid \in venue_ids :
        Val(aob, t1, t2, vid) + Val(aob, t2, t1, vid) - 1 <= Val(adj, t1, t2, vid)

\* AOB(t1,t2,vid) >= ADJACENT(t1,t2,vid)
ADJACENT_C2(aob, adj) ==
    \A t1 \in talk_ids : \A t2 \in talk_ids : \A vid \in venue_ids :
        Val(aob, t1, t2, vid) >= Val(adj, t1, t2, vid)

\* the values <<aob, adj>> the solver may give the adjacency variables beside
\* a START valuation.  A variable of a venue that does not hold both talks
\* cannot be 1 (ADJACENT_OR_BEFORE_C, ADJACENT_C2), so only the triples of
\* venues that hold both are enumerated; the three families then filter.
AdjacencyValuations(st) ==
    LET both == {x \in AdjacencyTriples : /\ StartCountIn(st, x[1], x[3]) > 0
                                         /\ StartCountIn(st, x[2], x[3]) > 0}
    IN  {c \in (SUBSET both) \X (SUBSET both) :
            /\ ADJACENT_OR_BEFORE_C(st, c[1])
            /\ ADJACENT_C(c[1], c[2])
            /\ ADJACENT_C2(c[1], c[2])}

\* the slot a talk starts at in a venue that holds it
StartIn(tid, vid) == StartSlotSumIn(START, tid, vid)

\* two talks held by venue vid are consecutive there: one starts exactly
\* duration slots after the other starts
Consecutive(t1, t2, vid) ==
    \/ StartIn(t2, vid) = StartIn(t1, vid) + talks_by_id(t1).duration
    \/ StartIn(t1, vid) = StartIn(t2, vid) + talks_by_id(t2).duration

Min(a, b) == IF a <= b THEN a ELSE b

\* C21: in every feasible valuation, ADJACENT_V(t1,t2,v) is the minimum of
\* ADJACENT_OR_BEFORE_V(t1,t2,v) and ADJACENT_OR_BEFORE_V(t2,t1,v); in
\* particular ADJACENT_V(t1,t2,v) = 1 for distinct talks implies that both are
\* placed in venue v and are consecutive there.
C21_AdjacentIsMin ==
    Solved => \A c \in AdjacencyValuations(START) : \A x \in AdjacencyTriples :
                /\ Val(c[2], x[1], x[2], x[3])
                      = Min(Val(c[1], x[1], x[2], x[3]), Val(c[1], x[2], x[1], x[3]))
                /\ (x \in c[2] /\ x[1] /= x[2]) =>
                      /\ StartCountIn(START, x[1], x[3]) = 1
                      /\ StartCountIn(START, x[2], x[3]) = 1
                      /\ Consecutive(x[1], x[2], x[3])

\* what the three families do give: ADJACENT_V(t1,t2,v) = 1 implies
\* ADJACENT_OR_BEFORE_V(t1,t2,v) = 1, and that implies that both talks are
\* placed in venue v and t2 starts no later than duration(t1) slots after t1
AdjacentImpliesOrBefore ==
    Solved => \A c \in AdjacencyValuations(START) : \A x \in AdjacencyTriples :
                /\ x \in c[2] => x \in c[1]
                /\ x \in c[1] =>
                      /\ StartCountIn(START, x[1], x[3]) = 1
                      /\ StartCountIn(START, x[2], x[3]) = 1
                      /\ StartIn(x[2], x[3]) - StartIn(x[1], x[3])
                            <= talks_by_id(x[1]).duration

\* two distinct talks with both ADJACENT_OR_BEFORE_V variables 1 are consecutive
BothOrBeforeIsConsecutive ==
    Solved => \A c \in AdjacencyValuations(START) : \A x \in AdjacencyTriples :
                (x \in c[1] /\ <<x[2], x[1], x[3]>> \in c[1] /\ x[1] /= x[2])
                    => Consecutive(x[1], x[2], x[3])

\* some valuation has ADJACENT_V(t1,t2,v) = 1 for two distinct talks that are
\* not consecutive
AdjacentNotConsecutive ==
    Solved /\ \E c \in AdjacencyValuations(START) : \E x \in c[2] :
                x[1] /= x[2] /\ ~Consecutive(x[1], x[2], x[3])

\* the talks flagged before_rest, the talks flagged after_rest
BeforeRestTalks == {talks[i].id : i \in {k \in DOMAIN talks : talks[k].before_rest = 1}}
AfterRestTalks == {talks[i].id : i \in {k \in DOMAIN talks : talks[k].after_rest = 1}}

\* some rest talk is active at a slot, in some venue, by its ACTIVE variable
RestActiveAt(slot) ==
    \E t2id \in rest_talks : ActiveAnywhere(START, slot, t2id) >= 1

\* the last slot of a returned tuple
LastSlotOf(r) == r.slot + talks_by_id(r.id).duration - 1

\* a slot is the last available slot
LastAvailable(slot) == slot \in slots_available /\ \A s \in slots_available : s <= slot

\* C22: in every feasible valuation, for every talk flagged before_rest some
\* rest talk is active at the slot immediately after the talk's last active
\* slot, and for every talk flagged after_rest some rest talk is active at the
\* slot immediately before its first active slot; a flagged talk therefore
\* does not end at the last available slot (before_rest) and does not start
\* at slot 0 (after_rest).
C22_FlaggedTalkNextToRest ==
    Solved => \A r \in solved :
                /\ r.id \in BeforeRestTalks =>
                      RestActiveAt(LastSlotOf(r) + 1) /\ ~LastAvailable(LastSlotOf(r))
                /\ r.id \in AfterRestTalks =>
                      RestActiveAt(r.slot - 1) /\ r.slot /= 0

\* with the bounds of the pruned variables honoured, a flagged talk has a rest
\* next to it and ends before the last available slot / starts after slot 0
FlaggedTalkNextToRestWithBounds ==
    (binary_keeps_bounds /\ Solved) => \A r \in solved :
                /\ r.id \in BeforeRestTalks =>
                      RestActiveAt(LastSlotOf(r) + 1) /\ ~LastAvailable(LastSlotOf(r))
                /\ r.id \in AfterRestTalks =>
                      RestActiveAt(r.slot - 1) /\ r.slot /= 0

\* a talk flagged after_rest has a rest active just before it and never
\* starts at slot 0, whatever the bounds
AfterRestNextToRest ==
    Solved => \A r \in solved : r.id \in AfterRestTalks =>
                RestActiveAt(r.slot - 1) /\ r.slot /= 0

\* a flagged talk is returned
FlaggedTalkReturned ==
    Solved /\ \E r \in solved : r.id \in BeforeRestTalks \cup AfterRestTalks

(***************************************************************************)
(* The problem built with or without TALK_NOT_IN_BAD_SLOTS (bad),          *)
(* VENUE_NOT_IN_BAD_SLOTS (ven) and TALK_NOT_IN_INVALID_VENUE (inv).  The  *)
(* ACTIVE variables these families ask for are asked for by ONE_ACTIVE as  *)
(* well, so the variables and their CONTIGUITY constraints stay.  The      *)
(* constraints on ATTEND and ATTEND_AT read the START valuation only, so   *)
(* two problems have the same feasible schedules exactly when they have    *)
(* the same feasible START valuations.                                     *)
(***************************************************************************)
TalkFeasibleWith(tid, bad, inv) ==
    {c \in KSubsets(StartVars(tid), MaxOnes) :
        /\ ONE_START(c, tid)
        /\ ALLOWED_TIME_PLACE(c, tid)
        /\ StartBounds(c)
        /\ CONTIGUITY(c, tid)
        /\ bad => TALK_NOT_IN_BAD_SLOTS(c, tid)
        /\ inv => TALK_NOT_IN_INVALID_VENUE(c, tid)}

RECURSIVE StartCombosWith(_, _, _)
StartCombosWith(i, bad, inv) ==
    IF i = 0 THEN {{}}
    ELSE LET F == TalkFeasibleWith(talks[i].id, bad, inv)
         IN  {c \cup x : c \in StartCombosWith(i - 1, bad, inv), x \in F}

FeasibleStartsWith(bad, ven, inv) ==
    {st \in StartCombosWith(Len(talks), bad, inv) :
        /\ PREREQS(st)
        /\ REST_MIN_SPACING(st)
        /\ REST_MAX_SPACING(st)
        /\ ONE_ACTIVE(st)
        /\ ven => VENUE_NOT_IN_BAD_SLOTS(st)
        /\ BEFORE_REST(st)
        /\ AFTER_REST(st)
        /\ PLENARY_EXCLUSIVITY(st)
        /\ NO_SPEAKER_CONFLICTS(st)}

\* the problem has been built from the prepared schedule
Prepped == pc = "prepped"

\* C23: TALK_NOT_IN_BAD_SLOTS, TALK_NOT_IN_INVALID_VENUE and
\* VENUE_NOT_IN_BAD_SLOTS are redundant: the problem built without the three
\* families has exactly the feasible schedules of the problem built with them.
C23_ThreeFamiliesRedundant ==
    Prepped => FeasibleStartsWith(FALSE, FALSE, FALSE) = FeasibleStarts

\* with the bounds of the pruned variables honoured, the two families on
\* talks are redundant
TalkFamiliesRedundantWithBounds ==
    (Prepped /\ binary_keeps_bounds) =>
        FeasibleStartsWith(FALSE, TRUE, FALSE) = FeasibleStarts

\* the problem built without VENUE_NOT_IN_BAD_SLOTS has a feasible schedule
\* the problem built with it does not have, the bounds honoured
VenueFamilyNeeded ==
    /\ Prepped /\ binary_keeps_bounds
    /\ FeasibleStartsWith(TRUE, FALSE, TRUE) /= FeasibleStarts

\* the preferred-slots term of the objective: 10 * lpSum(active(s, t.id, vid)
\* for t in talks for s in talk.preferred_slots for vid in venue_ids)
PreferredSlotsTerm(st) ==
    10 * SumFn([x \in {<<i, k, vid>> : i \in DOMAIN talks,
                                        k \in DOMAIN LoopTalk.preferred_slots,
                                        vid \in venue_ids} |->
                   ActiveVal(st, RewardedSlots(talks[x[1]].id)[x[2]],
                             talks[x[1]].id, x[3])])

\* the term read with the preferred slots of the iterated talk
OwnPreferredSlotsTerm(st) ==
    10 * SumFn([x \in UNION {{<<i, k, vid>> : k \in DOMAIN talks[i].preferred_slots,
                                              vid \in venue_ids} :
                             i \in DOMAIN talks} |->
                   ActiveVal(st, talks[x[1]].preferred_slots[x[2]],
                             talks[x[1]].id, x[3])])

\* C24: the preferred-slot term of the objective adds weight 10 for each
\* ACTIVE(s,t,v) with s among the preferred_slots of that same talk t: for
\* every talk the slots rewarded are its own preferred_slots, independent of
\* the preferred_slots of any other talk and of the order of the talks.
C24_OwnPreferredSlotsRewarded ==
    Solved => /\ \A i \in DOMAIN talks :
                    RewardedSlots(talks[i].id) = talks[i].preferred_slots
              /\ PreferredSlotsTerm(START) = OwnPreferredSlotsTerm(START)

\* the last talk of the schedule is rewarded in its own preferred slots, and
\* when every talk has the preferred slots of the last one the term is the
\* one of the iterated talks
LastTalkOwnPreferredSlotsRewarded ==
    Solved => /\ RewardedSlots(LoopTalk.id) = LoopTalk.preferred_slots
              /\ (\A i \in DOMAIN talks :
                     talks[i].preferred_slots = LoopTalk.preferred_slots)
                    => PreferredSlotsTerm(START) = OwnPreferredSlotsTerm(START)

\* a talk is returned in a preferred slot of its own that the term does not
\* reward
OwnPreferredSlotUnrewarded ==
    Solved /\ \E r \in solved :
                /\ r.slot \in Range(talks_by_id(r.id).preferred_slots)
                /\ r.slot \notin Range(RewardedSlots(r.id))

\* the talks of the schedule descriptor that have no spacing_slots key
TalksWithoutKey == {i \in DOMAIN schedule.talks : schedule.talks[i].spacing_slots = NoKey}

\* talk i was prepared with spacing sp: duration and slot ranges
PreparedWith(i, sp) ==
    /\ talks[i].duration = CeilDiv(schedule.talks[i].duration, SLOT_INCREMENT) + sp
    /\ talks[i].slots
          = RangesToSlots(event_start(schedule), schedule.talks[i].time_ranges, sp)

\* C25: in prep_schedule a talk's own spacing_slots value affects only that
\* talk: a talk record without a spacing_slots key gets duration =
\* ceil(duration_minutes/5) + the default spacing passed to prep_schedule and
\* slot ranges extended by that default, whatever spacing_slots values
\* earlier talks in the list declare.
C25_SpacingKeyAffectsOwnTalkOnly ==
    Prepped => \A i \in TalksWithoutKey : PreparedWith(i, spacing_arg)

\* a talk with a spacing_slots key is prepared with it, and a talk without one
\* that has no talk with a key before it is prepared with the default
OwnKeyOrDefaultWhenNoKeyBefore ==
    Prepped => \A i \in DOMAIN schedule.talks :
                /\ i \notin TalksWithoutKey =>
                      PreparedWith(i, schedule.talks[i].spacing_slots)
                /\ (\A j \in 1..i : j \in TalksWithoutKey) =>
                      PreparedWith(i, spacing_arg)

\* a talk without a key is prepared with the key of the talk before it
KeyOfEarlierTalkUsed ==
    Prepped /\ \E i \in TalksWithoutKey :
                /\ i > 1 /\ i - 1 \notin TalksWithoutKey
                /\ schedule.talks[i - 1].spacing_slots /= spacing_arg
                /\ PreparedWith(i, schedule.talks[i - 1].spacing_slots)

\* some talk has a speaker that IRL_ONLY or INVITE_ONLY gates out of it
GatedSpeaker ==
    \E i \in DOMAIN talks : \E k \in DOMAIN talks[i].speakers :
        <<talks[i].id, talks[i].speakers[k]>> \in Gated

\* C26: if a talk is invite_only and one of its speakers has preferences[talk]
\* 0 or absent, or a talk is irl_only and one of its speakers has attending =
\* 0, the built problem has no feasible valuation and schedule fails with
\* Unsatisfiable.
C26_GatedSpeakerUnsatisfiable ==
    GatedSpeaker =>
        /\ Prepped => FeasibleValuations = {}
        /\ pc \notin {"start", "prepped"} => pc = "unsatisfiable"

\* with a gated speaker the problem has no feasible valuation, the status is
\* never Optimal and nothing is returned
GatedSpeakerInfeasible ==
    GatedSpeaker =>
        /\ Prepped => FeasibleValuations = {}
        /\ pc \notin {"start", "prepped"} =>
              /\ status \in {"Infeasible", "Not Solved"}
              /\ pc \in {"unsatisfiable", "type_error"}
              /\ solved = {}

\* with a gated speaker schedule never ends in a TypeError: refuted
GatedSpeakerNeverTypeError == GatedSpeaker => pc /= "type_error"

====
